---- MODULE Spec2Model ----
(***************************************************************************)
(* PromptLayer: the completion client (services/openaiClient.ts) and the  *)
(* storage calls it depends on (services/storage.ts).                     *)
(*                                                                         *)
(* Time is in milliseconds, as Date.now() gives it.  One chatCompletion   *)
(* invocation is in flight at a time in Spec; its position is pc.         *)
(***************************************************************************)
EXTENDS Integers, Sequences, FiniteSets, TLC

\* ------------------------------------------------------------------ bounds
\* Date.now() when the exploration starts (any value above WINDOW_MS).
StartTime == 100000
\* chatCompletion invocations explored in one behaviour.
MaxCalls == 2
\* Clock advances by the environment explored in one behaviour.
MaxTicks == 2
\* Concurrent chatCompletion invocations in SpecConc.
NumCallers == 2
\* Calendar months gone through in SpecUsage.
MaxMonth == 3
\* trackUsage runs explored in one behaviour of SpecUsage.
MaxTracked == 3
\* Lines of the longest rawResponse handed to the parser in SpecParse.
MaxLines == 4
\* injectToolbar() invocations that may overlap in SpecToolbar.
NumInjectors == 2
\* StorageService calls in one behaviour of SpecStorage.
MaxStorageOps == 3
\* injectToolbar() and removeToolbar() calls in one behaviour of SpecToolbar.
MaxBarOps == 4
\* roleBlueprints calls in one behaviour of SpecRoles.
MaxRoleOps == 2
\* Roles in the longest file handed to importRoles in SpecRoles.
MaxFileRoles == 2

\* ------------------------------------------------------- program constants
MAX_RETRIES == 3
MAX_REQUESTS_PER_MINUTE == 50
REQUEST_TIMEOUT == 30000
WINDOW_MS == 60000
BACKOFF_BASE_MS == 1000
MAX_PROMPTS == 500

\* ------------------------------------------------------------ input domains
NoKey == "<none>"
NoConfig == [apiKey |-> NoKey]
ApiKeys == {"sk-A"}
\* The apiKey values updateConfig({apiKey}) is called with.
ConfigUpdates == ApiKeys \cup {""}
\* Amounts by which the environment advances the clock between steps.
TickSteps == {1000, WINDOW_MS}
\* requestCount values of the client states the exploration starts from: a
\* fresh client, or one that has just admitted a burst of attempts.
InitCounts == {0, MAX_REQUESTS_PER_MINUTE - 3, MAX_REQUESTS_PER_MINUTE - 2,
               MAX_REQUESTS_PER_MINUTE - 1, MAX_REQUESTS_PER_MINUTE}
\* What one fetch can come back with.
\*   ok       2xx, choices[0].message.content non-empty
\*   empty    2xx, content absent or ""
\*   badbody  2xx, response.json() rejects
\*   401, 429 the two statuses the client singles out
\*   500      any other non-2xx status
\*   neterr   fetch rejects (not an abort)
\*   timeout  the AbortController fires after REQUEST_TIMEOUT
Responses == {"ok", "empty", "badbody", "401", "429", "500", "neterr", "timeout"}

VARIABLES
    storedKey,        \* chrome.storage.local[API_KEY] as getApiKey() returns it
    config,           \* OpenAIClient.config
    requestCount,     \* OpenAIClient.requestCount
    lastRequestTime,  \* OpenAIClient.lastRequestTime
    now,              \* Date.now()
    admitted,         \* times at which checkRateLimit let an attempt pass
    pc,               \* position of the chatCompletion invocation
    retryCount,       \* makeRequest's retryCount parameter
    attempts,         \* fetch calls issued by the invocation
    resp,             \* how many of those fetches came back with each kind
    lastResp,         \* what the latest of them came back with
    delays,           \* backoff delays slept by the invocation
    outcome,          \* how the invocation ended
    waitHint,         \* seconds named in the 'Rate limit exceeded' error
    rejectedAt,       \* Date.now() of that rejection
    usageFailed,      \* a storage call of trackUsage failed in the invocation
    calls,            \* invocations started
    ticks,            \* clock advances made
    \* SpecConc: concurrent invocations on the one client
    cpc,              \* position of each invocation
    crc,              \* its retryCount
    cwake,            \* when its pending timer (abort or backoff) is due
    cout,             \* how it ended
    \* SpecUsage: the usage record in chrome.storage.local and its writers
    calMonth,         \* the calendar month, new Date().toISOString().slice(0, 7)
    stats,            \* chrome.storage.local[STATS]
    defaultStats,     \* the DEFAULT_STATS object of storage.ts
    tpc,              \* position of trackUsage
    tloc,             \* its local variables
    ppc,              \* position of the popup's loadStats
    ploc,             \* its local variables
    spent,            \* per tracked call, the calendar month its cost fell in
    ucalls,           \* trackUsage runs started
    \* SpecParse: one parseEnhancedPrompt call
    text,             \* rawResponse, as its lines
    parsed,           \* the EnhancedPrompt returned
    \* SpecStorage: the prompt library and the stored API key
    prompts,          \* chrome.storage.local[PROMPTS]
    keyBlob,          \* chrome.storage.local[API_KEY], as stored
    sres,             \* how the latest StorageService call ended
    sops,             \* StorageService calls made
    \* SpecToolbar: the content script's toolbar
    toolbarInjected,  \* the module variable of injectToolbar.ts
    containers,       \* 'promptlayer-container' elements in document.body
    ipc,              \* position of each injectToolbar() invocation
    barOps,           \* injectToolbar() and removeToolbar() calls made
    \* SpecRoles: the custom roles
    roles,            \* chrome.storage.local[ROLES]
    rres,             \* what the latest roleBlueprints call returned
    rops,             \* roleBlueprints calls made
    minted,           \* ids generated so far
    \* SpecTrack: concurrent writers of the usage record
    upc,              \* position of each enhance() invocation
    uloc              \* its local variables

clientVars == <<config, requestCount, lastRequestTime, admitted>>
callVars == <<pc, retryCount, attempts, resp, lastResp, delays, outcome, waitHint,
              rejectedAt, usageFailed>>
concVars == <<cpc, crc, cwake, cout>>
usageVars == <<calMonth, stats, defaultStats, tpc, tloc, ppc, ploc, spent, ucalls>>
parseVars == <<text, parsed>>
libVars == <<prompts, keyBlob, sres, sops>>
barVars == <<toolbarInjected, containers, ipc, barOps>>
roleVars == <<roles, rres, rops, minted>>
trackVars == <<upc, uloc>>
\* The extension's state outside the client, the usage record and the parser.
pageVars == <<libVars, barVars, roleVars, trackVars>>
\* What the sequential client specification leaves alone.
offClient == <<concVars, usageVars, parseVars, pageVars>>
vars == <<storedKey, config, requestCount, lastRequestTime, now, admitted,
          pc, retryCount, attempts, resp, lastResp, delays, outcome,
          waitHint, rejectedAt, usageFailed, calls, ticks,
          concVars, usageVars, parseVars, pageVars>>

\* ------------------------------------------------------------------ helpers
RECURSIVE Pow2(_)
Pow2(n) == IF n = 0 THEN 1 ELSE 2 * Pow2(n - 1)

\* Math.ceil(x / 1000) for an integer x
CeilDiv1000(x) == IF x % 1000 = 0 THEN x \div 1000 ELSE (x \div 1000) + 1

Burst(n, t) == [i \in 1..n |-> t]

NoResponses == [k \in Responses |-> 0]

\* ----------------------------------------------------------------- storage
\* storageService.getApiKey(): the stored key, or null when none is stored
\* (an empty stored value is falsy and reads as null as well).
GetApiKey(stored) == stored

\* ------------------------------------------------------------------ client
\* initialize(): throws API_KEY_MISSING when getApiKey() is falsy, else
\* caches the configuration.
Initialize_NoKeyCheck(stored) ==
    [ok |-> TRUE, config |-> [apiKey |-> GetApiKey(stored)]]

Initialize(stored) ==
    IF GetApiKey(stored) = NoKey
    THEN [ok |-> FALSE, config |-> NoConfig]
    ELSE [ok |-> TRUE, config |-> [apiKey |-> GetApiKey(stored)]]

\* checkRateLimit() with the ceiling compared by > instead of >=.
CheckRateLimit_OffByOne(count, last, t) ==
    LET since == t - last
        c == IF since > WINDOW_MS THEN 0 ELSE count
    IN  IF c > MAX_REQUESTS_PER_MINUTE
        THEN [admit |-> FALSE, count |-> c, last |-> last,
              wait |-> CeilDiv1000(WINDOW_MS - since)]
        ELSE [admit |-> TRUE, count |-> c + 1, last |-> t, wait |-> 0]

\* checkRateLimit() without its requestCount++.
CheckRateLimit_NoIncrement(count, last, t) ==
    LET since == t - last
        c == IF since > WINDOW_MS THEN 0 ELSE count
    IN  IF c >= MAX_REQUESTS_PER_MINUTE
        THEN [admit |-> FALSE, count |-> c, last |-> last,
              wait |-> CeilDiv1000(WINDOW_MS - since)]
        ELSE [admit |-> TRUE, count |-> c, last |-> t, wait |-> 0]

\* checkRateLimit() at time t with the given counter and last-request time:
\* whether the attempt passes, and the fields afterwards.
CheckRateLimit(count, last, t) ==
    LET since == t - last
        c == IF since > WINDOW_MS THEN 0 ELSE count
    IN  IF c >= MAX_REQUESTS_PER_MINUTE
        THEN [admit |-> FALSE, count |-> c, last |-> last,
              wait |-> CeilDiv1000(WINDOW_MS - since)]
        ELSE [admit |-> TRUE, count |-> c + 1, last |-> t, wait |-> 0]

\* makeRequest with the 401 branch missing: a 401 falls through to the retry.
HandleResponse_Retry401(kind, rc) ==
    CASE kind = "ok"      -> [next |-> "done", outcome |-> "ok"]
      [] kind = "empty"   -> [next |-> "done", outcome |-> "EmptyResponse"]
      [] kind = "500"     -> [next |-> "done", outcome |-> "RemoteServiceError"]
      [] kind = "timeout" -> [next |-> "done", outcome |-> "NetworkTimeout"]
      [] kind \in {"429", "401"} ->
            IF rc < MAX_RETRIES
            THEN [next |-> "sleep", outcome |-> "none"]
            ELSE [next |-> "done", outcome |-> "RemoteRateLimited"]
      [] OTHER            ->
            IF rc < MAX_RETRIES
            THEN [next |-> "sleep", outcome |-> "none"]
            ELSE [next |-> "done", outcome |-> "NetworkError"]

\* makeRequest whose catch block does not rethrow a PromptLayerError: every
\* failure thrown inside the try block is retried as a network error.
HandleResponse_NoRethrow(kind, rc) ==
    CASE kind = "ok"      -> [next |-> "done", outcome |-> "ok"]
      [] kind = "429" /\ rc < MAX_RETRIES -> [next |-> "sleep", outcome |-> "none"]
      [] OTHER            ->
            IF rc < MAX_RETRIES
            THEN [next |-> "sleep", outcome |-> "none"]
            ELSE [next |-> "done", outcome |-> "NetworkError"]

\* makeRequest with the retry bound compared by <= instead of <.
HandleResponse_RetryOnceMore(kind, rc) ==
    CASE kind = "ok"      -> [next |-> "done", outcome |-> "ok"]
      [] kind = "empty"   -> [next |-> "done", outcome |-> "EmptyResponse"]
      [] kind = "401"     -> [next |-> "done", outcome |-> "CredentialInvalid"]
      [] kind = "500"     -> [next |-> "done", outcome |-> "RemoteServiceError"]
      [] kind = "timeout" -> [next |-> "done", outcome |-> "NetworkTimeout"]
      [] kind = "429"     ->
            IF rc <= MAX_RETRIES
            THEN [next |-> "sleep", outcome |-> "none"]
            ELSE [next |-> "done", outcome |-> "RemoteRateLimited"]
      [] OTHER            ->
            IF rc < MAX_RETRIES
            THEN [next |-> "sleep", outcome |-> "none"]
            ELSE [next |-> "done", outcome |-> "NetworkError"]

\* The part of makeRequest after the fetch settles: what the attempt's result
\* leads to when it was made with retry count rc.
HandleResponse(kind, rc) ==
    CASE kind = "ok"      -> [next |-> "done", outcome |-> "ok"]
      [] kind = "empty"   -> [next |-> "done", outcome |-> "EmptyResponse"]
      [] kind = "401"     -> [next |-> "done", outcome |-> "CredentialInvalid"]
      [] kind = "500"     -> [next |-> "done", outcome |-> "RemoteServiceError"]
      [] kind = "timeout" -> [next |-> "done", outcome |-> "NetworkTimeout"]
      [] kind = "429"     ->
            IF rc < MAX_RETRIES
            THEN [next |-> "sleep", outcome |-> "none"]
            ELSE [next |-> "done", outcome |-> "RemoteRateLimited"]
      [] OTHER            ->
            IF rc < MAX_RETRIES
            THEN [next |-> "sleep", outcome |-> "none"]
            ELSE [next |-> "done", outcome |-> "NetworkError"]

\* trackUsage without its try/catch and over storage calls that let their
\* errors out.
TrackUsage_NoCatch(storageFails) ==
    IF storageFails THEN "throws" ELSE "returns"

\* trackUsage(...) as makeRequest sees it.  getStats and updateStats catch
\* their own storage errors and the body sits in a try/catch, so it returns
\* whether or not a storage call failed.
TrackUsage(storageFails) ==
    "returns"

\* The ErrorType of the PromptLayerError each failure is thrown as
\* (makeRequest, checkRateLimit, initialize, fetchWithTimeout).
ErrorTypeOf(out) ==
    CASE out = "CredentialMissing"  -> "API_KEY_MISSING"
      [] out = "CredentialInvalid"  -> "API_KEY_INVALID"
      [] out = "LocalRateLimited"   -> "API_RATE_LIMIT"
      [] out = "RemoteRateLimited"  -> "API_RATE_LIMIT"
      [] out = "NetworkTimeout"     -> "API_NETWORK_ERROR"
      [] out = "NetworkError"       -> "API_NETWORK_ERROR"
      [] out = "RemoteServiceError" -> "API_NETWORK_ERROR"
      [] out = "EmptyResponse"      -> "UNKNOWN_ERROR"

\* validate() that takes every failure of the probe for an invalid key.
Validate_FalseOnAnyError(out) ==
    out = "ok"

\* validate(): the probe makeRequest ended with out; true when it resolved,
\* false when it threw API_KEY_INVALID, true for every other error.
Validate(out) ==
    IF out = "ok" THEN TRUE
    ELSE IF ErrorTypeOf(out) = "API_KEY_INVALID" THEN FALSE
    ELSE TRUE

\* Math.pow(2, retryCount) * 1000
BackoffDelay(rc) == Pow2(rc) * BACKOFF_BASE_MS

\* -------------------------------------------------------------------- Init
Callers == 1..NumCallers

\* The client and the storage it reads: fresh, or just after a burst.
ClientInit ==
    /\ storedKey \in ApiKeys \cup {NoKey}
    /\ now = StartTime
    /\ \E c0 \in InitCounts :
          /\ requestCount = c0
          /\ lastRequestTime = IF c0 = 0 THEN 0 ELSE StartTime
          /\ admitted = Burst(c0, StartTime)
          /\ IF c0 = 0
             THEN config = NoConfig
             ELSE config \in [apiKey : ApiKeys]

\* No concurrent invocation has been started.
ConcIdle ==
    /\ cpc = [c \in Callers |-> "idle"]
    /\ crc = [c \in Callers |-> 0]
    /\ cwake = [c \in Callers |-> 0]
    /\ cout = [c \in Callers |-> "none"]

\* The usage record.  Months are numbered from 1.  A cost or token field is the set
\* of tracked calls whose amounts it sums (the empty set is 0), so that the
\* calls behind a sum stay visible.
\* Nothing is stored under STATS: a record for month 0.
NoStats ==
    [currentMonth |-> 0, monthlyCostUSD |-> {}, totalCostUSD |-> {},
     totalTokensUsed |-> {}, enhancementsPerformed |-> 0]

\* getStats() that came back with DEFAULT_STATS because its read failed.
ReadFailed == [NoStats EXCEPT !.currentMonth = -1]

\* A writer of STATS that holds nothing: what it read, what it will write.
NoLocals == [seen |-> NoStats, upd |-> NoStats]

\* Nothing is stored under STATS and nobody is updating it.
UsageIdle ==
    /\ calMonth = 1
    /\ stats = NoStats
    /\ defaultStats = [NoStats EXCEPT !.currentMonth = 1]
    /\ tpc = "idle"
    /\ tloc = NoLocals
    /\ ppc = "idle"
    /\ ploc = NoLocals
    /\ spent = <<>>
    /\ ucalls = 0

\* No text has been handed to the parser.
NoResult == [none |-> TRUE]

ParseIdle ==
    /\ text = <<>>
    /\ parsed = NoResult

\* The client and its one invocation before anything has run.
ClientIdle ==
    /\ storedKey = NoKey
    /\ now = StartTime
    /\ config = NoConfig
    /\ requestCount = 0
    /\ lastRequestTime = 0
    /\ admitted = <<>>
    /\ pc = "idle"
    /\ retryCount = 0
    /\ attempts = 0
    /\ resp = NoResponses
    /\ lastResp = "none"
    /\ delays = <<>>
    /\ outcome = "none"
    /\ waitHint = 0
    /\ rejectedAt = 0
    /\ usageFailed = FALSE
    /\ calls = 0
    /\ ticks = 0

\* Nothing is stored in the prompt library or under API_KEY.
NoBlob == [fmt |-> "none"]

\* No StorageService call has been made.
NoCall == [op |-> "none", err |-> "none", value |-> <<>>, was |-> 0]

LibIdle ==
    /\ prompts = <<>>
    /\ keyBlob = NoBlob
    /\ sres = NoCall
    /\ sops = 0

\* The page as the content script finds it: no toolbar.
Injectors == 1..NumInjectors

BarIdle ==
    /\ toolbarInjected = FALSE
    /\ containers = 0
    /\ ipc = [i \in Injectors |-> "idle"]
    /\ barOps = 0

\* No custom role is stored.
NoReturn == [kind |-> "none"]

RoleIdle ==
    /\ roles = <<>>
    /\ rres = NoReturn
    /\ rops = 0
    /\ minted = 0

\* No enhance() invocation has been started.
TrackIdle ==
    /\ upc = [c \in Callers |-> "idle"]
    /\ uloc = [c \in Callers |-> NoLocals]

PageIdle == LibIdle /\ BarIdle /\ RoleIdle /\ TrackIdle

Init ==
    /\ ClientInit
    /\ PageIdle
    /\ ConcIdle
    /\ UsageIdle
    /\ ParseIdle
    /\ pc = "idle"
    /\ retryCount = 0
    /\ attempts = 0
    /\ resp = NoResponses
    /\ lastResp = "none"
    /\ delays = <<>>
    /\ outcome = "none"
    /\ waitHint = 0
    /\ rejectedAt = 0
    /\ usageFailed = FALSE
    /\ calls = 0
    /\ ticks = 0

\* ----------------------------------------------------------------- actions
\* The head of makeRequest(params, rc) from its entry to the fetch: lazy
\* initialisation, the null check, checkRateLimit, and the fetch being
\* issued.  att is the number of fetches the invocation has issued before;
\* Date.now() is the clock value the step ends with.
Enter(rc, att) ==
    LET ini == IF config = NoConfig THEN Initialize(storedKey)
               ELSE [ok |-> TRUE, config |-> config]
        rl == CheckRateLimit(requestCount, lastRequestTime, now')
    IN  /\ retryCount' = rc
        /\ IF ~ini.ok
           THEN /\ pc' = "done"
                /\ outcome' = "CredentialMissing"
                /\ attempts' = att
                /\ UNCHANGED <<config, requestCount, lastRequestTime, admitted,
                               waitHint, rejectedAt>>
           ELSE /\ config' = ini.config
                /\ requestCount' = rl.count
                /\ lastRequestTime' = rl.last
                /\ IF rl.admit
                   THEN /\ pc' = "fetch"
                        /\ outcome' = "none"
                        /\ attempts' = att + 1
                        /\ admitted' = Append(admitted, now')
                        /\ UNCHANGED <<waitHint, rejectedAt>>
                   ELSE /\ pc' = "done"
                        /\ outcome' = "LocalRateLimited"
                        /\ attempts' = att
                        /\ waitHint' = rl.wait
                        /\ rejectedAt' = now'
                        /\ UNCHANGED admitted

\* chatCompletion(params): makeRequest(params, 0)
ChatCompletion ==
    /\ pc = "idle"
    /\ calls < MaxCalls
    /\ calls' = calls + 1
    /\ resp' = NoResponses
    /\ lastResp' = "none"
    /\ delays' = <<>>
    /\ usageFailed' = FALSE
    /\ UNCHANGED <<storedKey, now, ticks>>
    /\ UNCHANGED offClient
    /\ Enter(0, 0)

\* The fetch of the current attempt settles with kind k and makeRequest runs
\* on to its return, its throw, or the start of its backoff sleep.  After a
\* 200 with text, trackUsage runs inside the try block; its storage calls
\* may fail.  An error it let out would not be a PromptLayerError and would
\* land in the retry branch of the catch block.
Respond(k) ==
    /\ pc = "fetch"
    /\ \E f \in (IF k = "ok" THEN BOOLEAN ELSE {FALSE}) :
         LET eff == IF k = "ok" /\ TrackUsage(f) = "throws" THEN "thrown" ELSE k
             h == HandleResponse(eff, retryCount)
         IN  /\ pc' = h.next
             /\ outcome' = h.outcome
             /\ delays' = IF h.next = "sleep"
                          THEN Append(delays, BackoffDelay(retryCount))
                          ELSE delays
             /\ usageFailed' = f
    /\ resp' = [resp EXCEPT ![k] = @ + 1]
    /\ lastResp' = k
    /\ now' = IF k = "timeout" THEN now + REQUEST_TIMEOUT ELSE now
    /\ UNCHANGED <<storedKey, config, requestCount, lastRequestTime, admitted,
                   retryCount, attempts, waitHint, rejectedAt, calls, ticks>>
    /\ UNCHANGED offClient

\* The backoff timer fires and makeRequest(params, retryCount + 1) runs.
Retry ==
    /\ pc = "sleep"
    /\ now' = now + BackoffDelay(retryCount)
    /\ UNCHANGED <<storedKey, resp, lastResp, delays, usageFailed, calls, ticks>>
    /\ UNCHANGED offClient
    /\ Enter(retryCount + 1, attempts)

\* The promise chatCompletion returned has settled and its caller has taken
\* the text or the error; the client is free for the next invocation.
Settle ==
    /\ pc = "done"
    /\ pc' = "idle"
    /\ retryCount' = 0
    /\ attempts' = 0
    /\ resp' = NoResponses
    /\ lastResp' = "none"
    /\ delays' = <<>>
    /\ outcome' = "none"
    /\ waitHint' = 0
    /\ rejectedAt' = 0
    /\ usageFailed' = FALSE
    /\ UNCHANGED <<storedKey, clientVars, now, calls, ticks>>
    /\ UNCHANGED offClient

\* Time passes between invocations.  Inside an invocation the clock moves by
\* the backoff sleeps and by a fetch that runs into REQUEST_TIMEOUT; a fetch
\* that settles earlier is taken to settle at once (two attempts of one
\* invocation are less than WINDOW_MS apart whatever the latency is).
Tick(d) ==
    /\ pc = "idle"
    /\ ticks < MaxTicks
    /\ ticks' = ticks + 1
    /\ now' = now + d
    /\ UNCHANGED <<storedKey, clientVars, callVars, calls>>
    /\ UNCHANGED offClient

\* storageService.setApiKey(k) / clearApiKey(), from the settings panel.
SetApiKey(k) ==
    /\ pc = "idle"
    /\ storedKey' = k
    /\ storedKey # k
    /\ UNCHANGED <<clientVars, callVars, now, calls, ticks>>
    /\ UNCHANGED offClient

ClearApiKey ==
    /\ pc = "idle"
    /\ storedKey # NoKey
    /\ storedKey' = NoKey
    /\ UNCHANGED <<clientVars, callVars, now, calls, ticks>>
    /\ UNCHANGED offClient

\* updateConfig({apiKey: k}): initialises the client first when it has no
\* configuration (and throws when that fails), then merges the update.
UpdateConfig(k) ==
    /\ pc = "idle"
    /\ LET ini == IF config = NoConfig THEN Initialize(storedKey)
                  ELSE [ok |-> TRUE, config |-> config]
       IN  /\ ini.ok
           /\ config' = [ini.config EXCEPT !.apiKey = k]
    /\ config' # config
    /\ UNCHANGED <<storedKey, requestCount, lastRequestTime, admitted, callVars,
                   now, calls, ticks>>
    /\ UNCHANGED offClient

Next ==
    \/ ChatCompletion
    \/ \E k \in Responses : Respond(k)
    \/ Retry
    \/ Settle
    \/ \E d \in TickSteps : Tick(d)
    \/ \E k \in ApiKeys : SetApiKey(k)
    \/ ClearApiKey
    \/ \E k \in ConfigUpdates : UpdateConfig(k)

Spec == Init /\ [][Next]_vars


\* ------------------------------------------------- concurrent invocations
\* SpecConc: NumCallers invocations of chatCompletion on the one client.
\* JavaScript runs each of them to its next await before another one gets
\* the thread, so their steps are the stretches of makeRequest between
\* awaits: up to `await this.initialize()`, from there to the fetch, from the
\* fetch result to the backoff sleep, and from the sleep to the next fetch.
Later(a, b) == IF a >= b THEN a ELSE b

\* What a fetch comes back with in SpecConc: a success, or the status that
\* sends the invocation round again.
ConcResponses == {"ok", "429"}

\* checkRateLimit() and the fetch being issued, for invocation c on retry
\* count rc at time t (lines 145-164: no await in between).
CCheck(c, rc, t) ==
    LET rl == CheckRateLimit(requestCount, lastRequestTime, t)
    IN  /\ requestCount' = rl.count
        /\ lastRequestTime' = rl.last
        /\ crc' = [crc EXCEPT ![c] = rc]
        /\ IF rl.admit
           THEN /\ cpc' = [cpc EXCEPT ![c] = "fetch"]
                /\ cwake' = [cwake EXCEPT ![c] = t + REQUEST_TIMEOUT]
                /\ admitted' = Append(admitted, t)
                /\ cout' = cout
           ELSE /\ cpc' = [cpc EXCEPT ![c] = "done"]
                /\ cout' = [cout EXCEPT ![c] = "LocalRateLimited"]
                /\ UNCHANGED <<cwake, admitted>>

\* Invocation c enters makeRequest(params, 0): with no configuration it
\* awaits initialize(), otherwise it runs on to the fetch.
CCall(c) ==
    /\ cpc[c] = "idle"
    /\ IF config = NoConfig
       THEN /\ cpc' = [cpc EXCEPT ![c] = "init"]
            /\ UNCHANGED <<requestCount, lastRequestTime, admitted, crc, cwake,
                           cout>>
       ELSE CCheck(c, 0, now)
    /\ UNCHANGED <<storedKey, config, now>>

\* initialize() of invocation c settles, and makeRequest runs on.
CInitialized(c) ==
    /\ cpc[c] = "init"
    /\ LET ini == Initialize(storedKey) IN
         IF ini.ok
         THEN /\ config' = ini.config
              /\ CCheck(c, 0, now)
         ELSE /\ cpc' = [cpc EXCEPT ![c] = "done"]
              /\ cout' = [cout EXCEPT ![c] = "CredentialMissing"]
              /\ UNCHANGED <<config, requestCount, lastRequestTime, admitted,
                             crc, cwake>>
    /\ UNCHANGED <<storedKey, now>>

\* The fetch of invocation c settles with kind k.
CRespond(c, k) ==
    /\ cpc[c] = "fetch"
    /\ now' = IF k = "timeout" THEN Later(now, cwake[c]) ELSE now
    /\ LET h == HandleResponse(k, crc[c]) IN
         /\ cpc' = [cpc EXCEPT ![c] = h.next]
         /\ cout' = [cout EXCEPT ![c] = h.outcome]
         /\ cwake' = [cwake EXCEPT ![c] = IF h.next = "sleep"
                                          THEN now' + BackoffDelay(crc[c])
                                          ELSE 0]
    /\ UNCHANGED <<storedKey, config, requestCount, lastRequestTime, admitted,
                   crc>>

\* The backoff timer of invocation c fires; timers fire in deadline order.
CRetry(c) ==
    /\ cpc[c] = "sleep"
    /\ \A d \in Callers : cpc[d] = "sleep" => cwake[c] <= cwake[d]
    /\ now' = Later(now, cwake[c])
    /\ CCheck(c, crc[c] + 1, now')
    /\ UNCHANGED <<storedKey, config>>

InitConc ==
    /\ ClientInit
    /\ PageIdle
    /\ ConcIdle
    /\ UsageIdle
    /\ ParseIdle
    /\ pc = "idle"
    /\ retryCount = 0
    /\ attempts = 0
    /\ resp = NoResponses
    /\ lastResp = "none"
    /\ delays = <<>>
    /\ outcome = "none"
    /\ waitHint = 0
    /\ rejectedAt = 0
    /\ usageFailed = FALSE
    /\ calls = 0
    /\ ticks = 0

NextConc ==
    /\ \E c \in Callers :
         \/ CCall(c)
         \/ CInitialized(c)
         \/ \E k \in ConcResponses : CRespond(c, k)
         \/ CRetry(c)
    /\ UNCHANGED <<callVars, calls, ticks, usageVars, parseVars, pageVars>>

SpecConc == InitConc /\ [][NextConc]_vars


\* ------------------------------------------------------- the usage record
\* SpecUsage: the writers of chrome.storage.local[STATS].  One successful
\* call runs trackUsage and then, when it came from enhance(), the
\* enhancer's own update; the popup's loadStats runs in another page and
\* interleaves with them at their awaits; the calendar month moves on at any
\* moment.  Every storage call may fail.

\* getStats(): result[STATS] || DEFAULT_STATS, and DEFAULT_STATS when the
\* read throws.
GetStats(ok) == IF ok /\ stats # NoStats THEN stats ELSE defaultStats

\* What the caller of getStats() knows of the stored record.
Seen(ok) == IF ok THEN stats ELSE ReadFailed

\* trackUsage that carries the monthly cost over into the new month.
RollOver_NoReset(s, month) == [s EXCEPT !.currentMonth = month]

\* trackUsage lines 255-258: a record of another month is zeroed, in place.
RollOver(s, month) ==
    IF s.currentMonth # month
    THEN [s EXCEPT !.monthlyCostUSD = {}, !.currentMonth = month]
    ELSE s

\* trackUsage lines 267-272: the fields handed to updateStats for call id.
UsageUpdates(s, month, id) ==
    [totalTokensUsed |-> s.totalTokensUsed \cup {id},
     totalCostUSD |-> s.totalCostUSD \cup {id},
     monthlyCostUSD |-> s.monthlyCostUSD \cup {id},
     currentMonth |-> month]

\* { ...currentStats, ...updates }
Merge(cur, upd) ==
    [f \in DOMAIN cur |-> IF f \in DOMAIN upd THEN upd[f] ELSE cur[f]]

\* trackUsage from its call to the call of updateStats: getStats resolves,
\* the month is read off the clock, the record is rolled over, the cost is
\* added.  The object getStats returned is DEFAULT_STATS itself when nothing
\* could be read, and the roll-over then writes into DEFAULT_STATS.
UTrack ==
    /\ tpc \in {"idle", "tracked"}
    /\ ucalls < MaxTracked
    /\ ucalls' = ucalls + 1
    /\ spent' = Append(spent, calMonth)
    /\ \E ok \in BOOLEAN :
         LET r == RollOver(GetStats(ok), calMonth) IN
           /\ defaultStats' = IF ok /\ stats # NoStats THEN defaultStats ELSE r
           /\ tloc' = [seen |-> Seen(ok),
                       upd |-> UsageUpdates(r, calMonth, ucalls')]
    /\ tpc' = "updateStats"
    /\ UNCHANGED <<calMonth, stats, ppc, ploc>>

\* updateStats lines 309-310, at position from: its getStats resolves and
\* the updates are merged over what it read.
UpdateStatsRead(from, to) ==
    /\ tpc = from
    /\ \E ok \in BOOLEAN :
         tloc' = [tloc EXCEPT !.upd = Merge(GetStats(ok), tloc.upd)]
    /\ tpc' = to
    /\ UNCHANGED <<calMonth, stats, defaultStats, ppc, ploc, spent, ucalls>>

\* updateStats line 311, at position from: the set lands, or fails and is
\* logged.
UpdateStatsSet(from, to) ==
    /\ tpc = from
    /\ \E ok \in BOOLEAN : stats' = IF ok THEN tloc.upd ELSE stats
    /\ tpc' = to
    /\ tloc' = NoLocals
    /\ UNCHANGED <<calMonth, defaultStats, ppc, ploc, spent, ucalls>>

\* enhance() lines 205-207: getStats resolves and the counters are bumped.
EStats ==
    /\ tpc = "tracked"
    /\ \E ok \in BOOLEAN :
         tloc' = [seen |-> Seen(ok),
                  upd |-> [enhancementsPerformed |->
                             GetStats(ok).enhancementsPerformed + 1]]
    /\ tpc' = "enhUpdateStats"
    /\ UNCHANGED <<calMonth, stats, defaultStats, ppc, ploc, spent, ucalls>>

\* The popup's loadStats lines 72-88: the read resolves; a record of another
\* month is zeroed and its write is issued.  With nothing stored the popup
\* builds a record of the current month and writes nothing.
PLoad ==
    /\ ppc = "idle"
    /\ LET statsData == IF stats # NoStats THEN stats
                        ELSE [NoStats EXCEPT !.currentMonth = calMonth]
       IN  /\ statsData.currentMonth # calMonth
           /\ ploc' = [seen |-> stats,
                       upd |-> [statsData EXCEPT !.monthlyCostUSD = {},
                                                 !.currentMonth = calMonth]]
    /\ ppc' = "set"
    /\ UNCHANGED <<calMonth, stats, defaultStats, tpc, tloc, spent, ucalls>>

\* The popup's write lands, or fails and is logged.
PSet ==
    /\ ppc = "set"
    /\ \E ok \in BOOLEAN : stats' = IF ok THEN ploc.upd ELSE stats
    /\ ppc' = "idle"
    /\ ploc' = NoLocals
    /\ UNCHANGED <<calMonth, defaultStats, tpc, tloc, spent, ucalls>>

\* The calendar moves on to the next month.
NewMonth ==
    /\ calMonth < MaxMonth
    /\ calMonth' = calMonth + 1
    /\ UNCHANGED <<stats, defaultStats, tpc, tloc, ppc, ploc, spent, ucalls>>

InitUsage ==
    /\ storedKey = NoKey
    /\ now = StartTime
    /\ config = NoConfig
    /\ requestCount = 0
    /\ lastRequestTime = 0
    /\ admitted = <<>>
    /\ PageIdle
    /\ ConcIdle
    /\ UsageIdle
    /\ ParseIdle
    /\ pc = "idle"
    /\ retryCount = 0
    /\ attempts = 0
    /\ resp = NoResponses
    /\ lastResp = "none"
    /\ delays = <<>>
    /\ outcome = "none"
    /\ waitHint = 0
    /\ rejectedAt = 0
    /\ usageFailed = FALSE
    /\ calls = 0
    /\ ticks = 0

NextUsage ==
    /\ \/ UTrack
       \/ UpdateStatsRead("updateStats", "set")
       \/ UpdateStatsSet("set", "tracked")
       \/ EStats
       \/ UpdateStatsRead("enhUpdateStats", "enhSet")
       \/ UpdateStatsSet("enhSet", "idle")
       \/ PLoad
       \/ PSet
       \/ NewMonth
    /\ UNCHANGED <<storedKey, now, clientVars, callVars, calls, ticks,
                   concVars, parseVars, pageVars>>

SpecUsage == InitUsage /\ [][NextUsage]_vars


\* ------------------------------------------------------------- the parser
\* SpecParse: parseEnhancedPrompt(rawResponse, _roleId) of
\* services/promptEnhancer.ts.  A string is the sequence of its lines (the
\* pieces between "\n"); a line is its trimmed content s together with
\* whether whitespace stands to its left and right.  The empty string is
\* the single line Line("") as an input, and <<>> as a result.
Line(s) == [l |-> FALSE, s |-> s, r |-> FALSE]
Padded(s) == [l |-> TRUE, s |-> s, r |-> TRUE]

\* Bodies for the SUGGESTED_ROLE section: two that match the pattern of
\* line 52 and one that does not (no category).
SugOk == "name: \"Data Analyst\" | category: research | confidence: 0.72 | reason: better fit"
SugHigh == "name: Guru | category: other | confidence: 1.5 | reason: sure"
SugBad == "name: Guru | confidence: high"

\* The lines the explored texts are made of.
Alphabet ==
    {Line("ROLE:"), Padded("role"), Line("OBJECTIVE:"), Line("CONSTRAINTS:"),
     Line("CONTEXT:"), Line("OUTPUT FORMAT:"), Line("SUGGESTED_ROLE:"),
     Line("suggested_role"),
     Line("a"), Padded("b"), Line(""),
     Line(SugOk), Line(SugHigh), Line(SugBad)}

\* The names in the header pattern of line 38.
HeaderNames ==
    {"ROLE", "OBJECTIVE", "CONSTRAINTS", "CONSTRAINT", "OUTPUT FORMAT",
     "TONE & STYLE", "KEYWORD STRATEGY", "EEAT REQUIREMENTS",
     "CONTENT STRUCTURE", "CONTEXT", "STAKEHOLDERS", "SUCCESS CRITERIA",
     "SUGGESTED_ROLE"}

\* s.toUpperCase(), on the contents of Alphabet it is applied to.
ToUpperCase(s) ==
    CASE s = "role" -> "ROLE"
      [] s = "suggested_role" -> "SUGGESTED_ROLE"
      [] OTHER -> s

\* s.replace(':', ''): the first colon goes.
RemoveColon(s) ==
    CASE s = "ROLE:" -> "ROLE"
      [] s = "OBJECTIVE:" -> "OBJECTIVE"
      [] s = "CONSTRAINTS:" -> "CONSTRAINTS"
      [] s = "CONTEXT:" -> "CONTEXT"
      [] s = "OUTPUT FORMAT:" -> "OUTPUT FORMAT"
      [] s = "SUGGESTED_ROLE:" -> "SUGGESTED_ROLE"
      [] s = SugOk -> "name \"Data Analyst\" | category: research | confidence: 0.72 | reason: better fit"
      [] s = SugHigh -> "name Guru | category: other | confidence: 1.5 | reason: sure"
      [] s = SugBad -> "name Guru | confidence: high"
      [] OTHER -> s

\* trimmed.match(/^(ROLE|...|SUGGESTED_ROLE):?$/i): a header name in any
\* case, alone on the line, with or without one colon after it.
IsHeader(s) ==
    \/ ToUpperCase(s) \in HeaderNames
    \/ s # RemoveColon(s) /\ ToUpperCase(RemoveColon(s)) \in HeaderNames

\* trimmed.replace(':', '').toUpperCase()
SectionName(s) == ToUpperCase(RemoveColon(s))

\* x.trim() of a string: blank lines at either end go, and so does the
\* whitespace left of the first line and right of the last.
RECURSIVE TrimStart(_)
TrimStart(ls) ==
    IF ls = <<>> THEN <<>>
    ELSE IF ls[1].s = "" THEN TrimStart(Tail(ls))
    ELSE <<[ls[1] EXCEPT !.l = FALSE]>> \o Tail(ls)

RECURSIVE TrimEnd(_)
TrimEnd(ls) ==
    IF ls = <<>> THEN <<>>
    ELSE IF ls[Len(ls)].s = "" THEN TrimEnd(SubSeq(ls, 1, Len(ls) - 1))
    ELSE SubSeq(ls, 1, Len(ls) - 1) \o <<[ls[Len(ls)] EXCEPT !.r = FALSE]>>

TrimString(ls) == TrimEnd(TrimStart(ls))

\* sections: per header name, whether the key is set, and the lines pushed
\* under it, each kept as its position in `lines`.
NoSections == [k \in HeaderNames |-> [set |-> FALSE, at |-> <<>>]]

\* sections[currentSection].push(trimmed), the other way round.
Push_Front(at, i) == <<i>> \o at

\* sections[currentSection].push(trimmed)
Push(at, i) ==
    Append(at, i)

\* The body of the for loop (lines 34-46) on line i.
ScanLine(st, lines, i) ==
    LET trimmed == lines[i].s IN
      IF IsHeader(trimmed)
      THEN [cur |-> SectionName(trimmed),
            sec |-> [st.sec EXCEPT ![SectionName(trimmed)] =
                                      [set |-> TRUE, at |-> <<>>]]]
      ELSE IF trimmed # "" /\ st.cur # ""
      THEN [st EXCEPT !.sec[st.cur].at = Push(@, i)]
      ELSE st

\* The for loop over the first n lines.
RECURSIVE Scan(_, _)
Scan(lines, n) ==
    IF n = 0 THEN [cur |-> "", sec |-> NoSections]
    ELSE ScanLine(Scan(lines, n - 1), lines, n)

\* The trimmed lines at the positions at.
Texts(lines, at) == [p \in 1..Len(at) |-> lines[at[p]].s]

\* strs.join(sep): a string as the sequence of its pieces.
RECURSIVE Join(_, _)
Join(strs, sep) ==
    IF Len(strs) = 0 THEN <<>>
    ELSE IF Len(strs) = 1 THEN <<strs[1]>>
    ELSE <<strs[1], sep>> \o Join(Tail(strs), sep)

\* The value undefined, where a string is expected.
Undefined == <<"undefined">>

\* sections[key]?.join(sep), left undefined for a key that is not set.
Field_NoDefault(sec, lines, sep) ==
    IF sec.set THEN Join(Texts(lines, sec.at), sep) ELSE Undefined

\* sections[key]?.join(sep) || ''
Field(sec, lines, sep) ==
    IF sec.set /\ Join(Texts(lines, sec.at), sep) # <<>>
    THEN Join(Texts(lines, sec.at), sep)
    ELSE <<>>

\* The keys collected into constraints, lines 74-84.
ConstraintKeys ==
    <<"CONSTRAINTS", "CONSTRAINT", "TONE & STYLE", "KEYWORD STRATEGY",
      "EEAT REQUIREMENTS", "CONTENT STRUCTURE", "CONTEXT", "STAKEHOLDERS",
      "SUCCESS CRITERIA">>

\* The forEach of lines 74-88 over the first n keys.
RECURSIVE Collect(_, _)
Collect(sec, n) ==
    IF n = 0 THEN <<>>
    ELSE Collect(sec, n - 1)
           \o (IF sec[ConstraintKeys[n]].set THEN sec[ConstraintKeys[n]].at
               ELSE <<>>)

\* The groups the pattern of line 52 captures in a line that matches it.
MatchGroups(s) ==
    CASE s = SugOk -> [category |-> "research", confidence |-> "0.72"]
      [] s = SugHigh -> [category |-> "other", confidence |-> "1.5"]

\* parseFloat(t), in hundredths.
ParseFloat(t) ==
    CASE t = "0.72" -> 72
      [] t = "1.5" -> 150

NoSuggestion == [present |-> FALSE, category |-> "", confidence |-> 0]

\* Lines 49-68.  The pattern is searched in the section's lines joined by
\* spaces.  A line without a category cannot match; the match starts at the
\* first line that can, and between the lines above its category and
\* confidence groups are those of the first line that matches on its own.
SuggestedRole(sec, lines) ==
    LET strs == Texts(lines, sec.at)
        hits == {p \in DOMAIN strs : strs[p] \in {SugOk, SugHigh}}
    IN  IF sec.set /\ Len(sec.at) > 0 /\ hits # {}
        THEN LET p == CHOOSE q \in hits : \A o \in hits : q <= o
                 g == MatchGroups(strs[p])
             IN  [present |-> TRUE, category |-> g.category,
                  confidence |-> ParseFloat(g.confidence)]
        ELSE NoSuggestion

\* The line holds "SUGGESTED_ROLE:" in some case.
HasMarker(s) == ToUpperCase(s) = "SUGGESTED_ROLE:"

\* rawResponse.replace(/SUGGESTED_ROLE:[\s\S]*?(?=\n\n|$)/i, ''): the first
\* occurrence of the marker, and from there the shortest stretch that ends
\* before an empty line followed by more text, or at the end of the string.
\* What stood before the marker on its line stays.
StripSuggestion(ls) ==
    LET marks == {i \in DOMAIN ls : HasMarker(ls[i].s)} IN
      IF marks = {} THEN ls
      ELSE LET i == CHOOSE m \in marks : \A o \in marks : m <= o
               stops == {j \in i..Len(ls) :
                           j + 1 < Len(ls) /\ ls[j + 1] = Line("")}
               j == IF stops = {} THEN Len(ls)
                    ELSE CHOOSE m \in stops : \A o \in stops : m <= o
           IN  SubSeq(ls, 1, i - 1)
                 \o <<[l |-> ls[i].l, s |-> "", r |-> FALSE]>>
                 \o SubSeq(ls, j + 1, Len(ls))

\* parseEnhancedPrompt(rawResponse): the EnhancedPrompt returned.
\* constraintsAt keeps, for each entry of constraints, the line of
\* rawResponse.trim() it was read from.
ParseEnhancedPrompt(raw) ==
    LET lines == TrimString(raw)
        sec == Scan(lines, Len(lines)).sec
    IN  [role |-> Field(sec["ROLE"], lines, " "),
         objective |-> Field(sec["OBJECTIVE"], lines, " "),
         constraints |-> Texts(lines, Collect(sec, Len(ConstraintKeys))),
         constraintsAt |-> Collect(sec, Len(ConstraintKeys)),
         outputFormat |-> Field(sec["OUTPUT FORMAT"], lines, "\n"),
         fullText |-> TrimString(StripSuggestion(raw)),
         suggestedRole |-> SuggestedRole(sec["SUGGESTED_ROLE"], lines)]

\* All texts of n lines over the alphabet.
TextsOfLength(n) == [1..n -> Alphabet]

\* One call of parseEnhancedPrompt on the text.
Parse ==
    /\ parsed = NoResult
    /\ parsed' = ParseEnhancedPrompt(text)
    /\ UNCHANGED text

InitParse ==
    /\ storedKey = NoKey
    /\ now = StartTime
    /\ config = NoConfig
    /\ requestCount = 0
    /\ lastRequestTime = 0
    /\ admitted = <<>>
    /\ PageIdle
    /\ ConcIdle
    /\ UsageIdle
    /\ \E n \in 1..MaxLines : text \in TextsOfLength(n)
    /\ parsed = NoResult
    /\ pc = "idle"
    /\ retryCount = 0
    /\ attempts = 0
    /\ resp = NoResponses
    /\ lastResp = "none"
    /\ delays = <<>>
    /\ outcome = "none"
    /\ waitHint = 0
    /\ rejectedAt = 0
    /\ usageFailed = FALSE
    /\ calls = 0
    /\ ticks = 0

NextParse ==
    /\ Parse
    /\ UNCHANGED <<storedKey, now, clientVars, callVars, calls, ticks,
                   concVars, usageVars, pageVars>>

SpecParse == InitParse /\ [][NextParse]_vars

\* ------------------------------------------- the prompt library and the key
\* A stored prompt: its id and how often updatePrompt has rewritten it.
Prompt(i) == [id |-> i, rev |-> 0]

\* The library holding prompts 1..n.
Library(n) == [i \in 1..n |-> Prompt(i)]

\* Library sizes a behaviour of SpecStorage starts from.
InitSizes == {0, MAX_PROMPTS - 1, MAX_PROMPTS}

\* Ids the calls of SpecStorage name: one stored in every non-empty library,
\* two stored in none.
PromptIds == {1, MAX_PROMPTS + 1, MAX_PROMPTS + 2}

\* jsonData of importData: text that JSON.parse rejects, an export without
\* prompts, and exports with one new prompt, or a stored and a new one.
BadJson == [json |-> FALSE]
ImportFiles ==
    {BadJson,
     [json |-> TRUE, hasPrompts |-> FALSE, prompts |-> <<>>],
     [json |-> TRUE, hasPrompts |-> TRUE, prompts |-> <<Prompt(MAX_PROMPTS + 1)>>],
     [json |-> TRUE, hasPrompts |-> TRUE,
      prompts |-> <<Prompt(1), Prompt(MAX_PROMPTS + 2)>>]}

MergeStrategies == {"replace", "merge"}

\* prompts.findIndex((p) => p.id === id), counted from 1; 0 for -1
FindIndex(ps, id) ==
    IF \E i \in 1..Len(ps) : ps[i].id = id
    THEN CHOOSE i \in 1..Len(ps) :
           /\ ps[i].id = id
           /\ \A j \in 1..(i - 1) : ps[j].id # id
    ELSE 0

\* What a StorageService call leaves: the error it threw and the list stored.
SavePromptOn(ps, p) ==
    IF Len(ps) >= MAX_PROMPTS
    THEN [err |-> "STORAGE_QUOTA_EXCEEDED", prompts |-> ps]
    ELSE [err |-> "none", prompts |-> Append(ps, p)]

UpdatePromptOn(ps, id) ==
    LET index == FindIndex(ps, id) IN
      IF index = 0
      THEN [err |-> "INVALID_INPUT", prompts |-> ps]
      ELSE [err |-> "none",
            prompts |-> [ps EXCEPT ![index].rev = (@ + 1) % 2]]

DeletePromptOn(ps, id) ==
    [err |-> "none", prompts |-> SelectSeq(ps, LAMBDA p : p.id # id)]

ImportDataOn(ps, file, mergeStrategy) ==
    IF ~file.json
    THEN [err |-> "INVALID_INPUT", prompts |-> ps]
    ELSE IF ~file.hasPrompts
    THEN [err |-> "none", prompts |-> ps]
    ELSE IF mergeStrategy = "replace"
    THEN [err |-> "none", prompts |-> file.prompts]
    ELSE LET existingIds == {ps[i].id : i \in 1..Len(ps)}
             newPrompts == SelectSeq(file.prompts,
                                     LAMBDA p : p.id \notin existingIds)
         IN  [err |-> "none", prompts |-> ps \o newPrompts]

\* API keys as byte strings, here of bits.
PlainKeys == {<<0, 1>>, <<1, 1>>}

\* The key stream `${extensionId}-${salt}` of the legacy format.
XorKey == <<1, 0>>

\* XOR of a byte string with the key stream: the legacy encryption, and
\* decryptLegacyXOR.
DecryptLegacyXOR(bytes) ==
    [i \in 1..Len(bytes) |-> (bytes[i] + XorKey[((i - 1) % Len(XorKey)) + 1]) % 2]

LegacyBlob(k) == [fmt |-> "xor", iv |-> 0, bytes |-> DecryptLegacyXOR(k)]

\* crypto.getRandomValues for the initialization vector
IVs == {0, 1}

\* AES-GCM under the extension's key and initialization vector iv, as a
\* stream cipher over the bits.
AesGcm(bytes, iv) == [i \in 1..Len(bytes) |-> (bytes[i] + iv + i) % 2]

\* encrypt(value) with initialization vector iv
Encrypt(k, iv) == [fmt |-> "aes", iv |-> iv, bytes |-> AesGcm(k, iv)]

\* decrypt(value): AES-GCM authenticates what encrypt produced and rejects
\* everything else, which then goes through decryptLegacyXOR.
Decrypt(blob) ==
    IF blob.fmt = "aes" THEN AesGcm(blob.bytes, blob.iv)
    ELSE DecryptLegacyXOR(blob.bytes)

\* What getApiKey() returns (<<>> for null) and what it leaves stored.
GetApiKeyOn(blob) ==
    [value |-> IF blob = NoBlob THEN <<>> ELSE Decrypt(blob), blob |-> blob]

\* A StorageService call starts and runs to its end.
StorageCall(op, err, value) ==
    /\ sops < MaxStorageOps
    /\ sops' = sops + 1
    /\ sres' = [op |-> op, err |-> err, value |-> value, was |-> Len(prompts)]

SavePrompt(id) ==
    LET r == SavePromptOn(prompts, Prompt(id)) IN
      /\ StorageCall("savePrompt", r.err, <<>>)
      /\ prompts' = r.prompts
      /\ UNCHANGED keyBlob

UpdatePrompt(id) ==
    LET r == UpdatePromptOn(prompts, id) IN
      /\ StorageCall("updatePrompt", r.err, <<>>)
      /\ prompts' = r.prompts
      /\ UNCHANGED keyBlob

DeletePrompt(id) ==
    LET r == DeletePromptOn(prompts, id) IN
      /\ StorageCall("deletePrompt", r.err, <<>>)
      /\ prompts' = r.prompts
      /\ UNCHANGED keyBlob

ImportData(file, mergeStrategy) ==
    LET r == ImportDataOn(prompts, file, mergeStrategy) IN
      /\ StorageCall("importData", r.err, <<>>)
      /\ prompts' = r.prompts
      /\ UNCHANGED keyBlob

LibGetApiKey ==
    LET r == GetApiKeyOn(keyBlob) IN
      /\ StorageCall("getApiKey", "none", r.value)
      /\ keyBlob' = r.blob
      /\ UNCHANGED prompts

LibSetApiKey(k, iv) ==
    /\ StorageCall("setApiKey", "none", <<>>)
    /\ keyBlob' = Encrypt(k, iv)
    /\ UNCHANGED prompts

LibClearApiKey ==
    /\ StorageCall("clearApiKey", "none", <<>>)
    /\ keyBlob' = NoBlob
    /\ UNCHANGED prompts

InitStorage ==
    /\ ClientIdle
    /\ ConcIdle
    /\ UsageIdle
    /\ ParseIdle
    /\ BarIdle
    /\ RoleIdle
    /\ TrackIdle
    /\ \E n \in InitSizes : prompts = Library(n)
    /\ keyBlob \in {NoBlob} \cup {LegacyBlob(k) : k \in PlainKeys}
                            \cup {Encrypt(k, iv) : k \in PlainKeys, iv \in IVs}
    /\ sres = NoCall
    /\ sops = 0

NextStorage ==
    /\ \/ \E id \in PromptIds : SavePrompt(id)
       \/ \E id \in PromptIds : UpdatePrompt(id)
       \/ \E id \in PromptIds : DeletePrompt(id)
       \/ \E file \in ImportFiles, m \in MergeStrategies : ImportData(file, m)
       \/ LibGetApiKey
       \/ \E k \in PlainKeys, iv \in IVs : LibSetApiKey(k, iv)
       \/ LibClearApiKey
    /\ UNCHANGED <<storedKey, now, clientVars, callVars, calls, ticks,
                   concVars, usageVars, parseVars, barVars, roleVars,
                   trackVars>>

SpecStorage == InitStorage /\ [][NextStorage]_vars

\* -------------------------------------------------------------- the toolbar
\* Invocation i of injectToolbar() starts: it returns at once when the flag
\* is set, otherwise it creates a container and awaits the HTML and CSS.
InjectToolbar(i) ==
    /\ ipc[i] \in {"idle", "returned", "injected", "threw"}
    /\ barOps < MaxBarOps
    /\ barOps' = barOps + 1
    /\ ipc' = [ipc EXCEPT ![i] = IF toolbarInjected THEN "returned"
                                 ELSE "loading"]
    /\ UNCHANGED <<toolbarInjected, containers>>

\* loadToolbarHTML() and loadToolbarCSS() of invocation i have settled: the
\* container goes into document.body and initializeToolbar is awaited, or
\* a fetch failed and the invocation throws.
Loaded(i, ok) ==
    /\ ipc[i] = "loading"
    /\ IF ok
       THEN /\ containers' = containers + 1
            /\ ipc' = [ipc EXCEPT ![i] = "initializing"]
       ELSE /\ ipc' = [ipc EXCEPT ![i] = "threw"]
            /\ UNCHANGED containers
    /\ UNCHANGED <<toolbarInjected, barOps>>

\* initializeToolbar() of invocation i has settled: the flag is set, or the
\* invocation throws with its container left in the page.
Initialized(i, ok) ==
    /\ ipc[i] = "initializing"
    /\ IF ok
       THEN /\ toolbarInjected' = TRUE
            /\ ipc' = [ipc EXCEPT ![i] = "injected"]
       ELSE /\ ipc' = [ipc EXCEPT ![i] = "threw"]
            /\ UNCHANGED toolbarInjected
    /\ UNCHANGED <<containers, barOps>>

\* removeToolbar(): document.getElementById finds the first container, if
\* any; it is removed and the flag cleared.
RemoveToolbar ==
    /\ barOps < MaxBarOps
    /\ barOps' = barOps + 1
    /\ IF containers > 0
       THEN /\ containers' = containers - 1
            /\ toolbarInjected' = FALSE
       ELSE UNCHANGED <<containers, toolbarInjected>>
    /\ UNCHANGED ipc

InitToolbar ==
    /\ ClientIdle
    /\ ConcIdle
    /\ UsageIdle
    /\ ParseIdle
    /\ PageIdle

NextToolbar ==
    /\ \/ \E i \in Injectors : InjectToolbar(i)
       \/ \E i \in Injectors, ok \in BOOLEAN : Loaded(i, ok)
       \/ \E i \in Injectors, ok \in BOOLEAN : Initialized(i, ok)
       \/ RemoveToolbar
    /\ UNCHANGED <<storedKey, now, clientVars, callVars, calls, ticks,
                   concVars, usageVars, parseVars, libVars, roleVars,
                   trackVars>>

SpecToolbar == InitToolbar /\ [][NextToolbar]_vars

\* ------------------------------------------ concurrent usage-record writers
\* Several enhance() invocations run on the one page, each through
\* trackUsage and then through the enhancer's own update; they interleave at
\* their awaits.  Every storage call succeeds and the month stays the same.
\* Invocation c is tracked call c; call 0 stands for the usage recorded
\* before.
Recorded ==
    [NoStats EXCEPT !.currentMonth = 1, !.monthlyCostUSD = {0},
                    !.totalCostUSD = {0}, !.totalTokensUsed = {0},
                    !.enhancementsPerformed = 1]

\* trackUsage of invocation c from its call to the call of updateStats.
TTrack(c) ==
    /\ upc[c] = "idle"
    /\ LET r == RollOver(GetStats(TRUE), calMonth) IN
         /\ defaultStats' = IF stats # NoStats THEN defaultStats ELSE r
         /\ uloc' = [uloc EXCEPT ![c] = [seen |-> Seen(TRUE),
                                         upd |-> UsageUpdates(r, calMonth, c)]]
    /\ upc' = [upc EXCEPT ![c] = "updateStats"]
    /\ UNCHANGED stats

\* updateStats lines 309-310 of invocation c, at position from.
TUpdateStatsRead(c, from, to) ==
    /\ upc[c] = from
    /\ uloc' = [uloc EXCEPT ![c].upd = Merge(GetStats(TRUE), uloc[c].upd)]
    /\ upc' = [upc EXCEPT ![c] = to]
    /\ UNCHANGED <<stats, defaultStats>>

\* updateStats line 311 of invocation c, at position from: the set lands.
TUpdateStatsSet(c, from, to) ==
    /\ upc[c] = from
    /\ stats' = uloc[c].upd
    /\ upc' = [upc EXCEPT ![c] = to]
    /\ uloc' = [uloc EXCEPT ![c] = NoLocals]
    /\ UNCHANGED defaultStats

\* enhance() lines 205-207 of invocation c.
TEStats(c) ==
    /\ upc[c] = "tracked"
    /\ uloc' = [uloc EXCEPT ![c] =
                  [seen |-> Seen(TRUE),
                   upd |-> [enhancementsPerformed |->
                              GetStats(TRUE).enhancementsPerformed + 1]]]
    /\ upc' = [upc EXCEPT ![c] = "enhUpdateStats"]
    /\ UNCHANGED <<stats, defaultStats>>

InitTrack ==
    /\ ClientIdle
    /\ ConcIdle
    /\ ParseIdle
    /\ PageIdle
    /\ calMonth = 1
    /\ stats \in {NoStats, Recorded}
    /\ defaultStats = [NoStats EXCEPT !.currentMonth = 1]
    /\ tpc = "idle"
    /\ tloc = NoLocals
    /\ ppc = "idle"
    /\ ploc = NoLocals
    /\ spent = <<>>
    /\ ucalls = 0

NextTrack ==
    /\ \E c \in Callers :
         \/ TTrack(c)
         \/ TUpdateStatsRead(c, "updateStats", "set")
         \/ TUpdateStatsSet(c, "set", "tracked")
         \/ TEStats(c)
         \/ TUpdateStatsRead(c, "enhUpdateStats", "enhSet")
         \/ TUpdateStatsSet(c, "enhSet", "done")
    /\ UNCHANGED <<storedKey, now, clientVars, callVars, calls, ticks,
                   concVars, parseVars, libVars, barVars, roleVars,
                   calMonth, tpc, tloc, ppc, ploc, spent, ucalls>>

SpecTrack == InitTrack /\ [][NextTrack]_vars

\* ---------------------------------------------------------- the custom roles
\* A role id: a name, and a serial number that tells the generated ids
\* `custom-${Date.now()}-${random}` apart (0 in every other id; a generated
\* id is taken never to repeat).
Id(name) == [name |-> name, n |-> 0]
GeneratedId(k) == [name |-> "custom", n |-> k]

\* The ids of DEFAULT_ROLE_BLUEPRINTS.
DefaultIds ==
    {Id("engineer"), Id("writer"), Id("seo-aeo-geo"), Id("product-manager"),
     Id("researcher"), Id("educator")}

\* A blueprint: its id, its two flags, and how often its content (name,
\* systemPrompt and the rest) has been rewritten.
DefaultRole(d) == [id |-> d, isDefault |-> TRUE, isEditable |-> FALSE, rev |-> 0]
CustomRole(id) == [id |-> id, isDefault |-> FALSE, isEditable |-> TRUE, rev |-> 0]

\* No blueprint: undefined, or null.
NoRole == [none |-> TRUE]

\* Ids the calls of SpecRoles name, besides the ids stored at the time.
NamedIds == {Id("engineer"), Id("role-x")}

\* The updates handed to updateRole: new content, another id, the default
\* flag.
RoleUpdates ==
    {[rev |-> 1], [id |-> Id("engineer")], [id |-> Id("role-x")],
     [isDefault |-> TRUE]}

\* A role of an import file; ok: it has a name and a systemPrompt.
FileRole(id, isDefault, ok) ==
    [id |-> id, isDefault |-> isDefault, isEditable |-> FALSE, rev |-> 0,
     ok |-> ok]

FileRoles ==
    {FileRole(Id("role-x"), FALSE, TRUE), FileRole(Id("role-y"), FALSE, TRUE),
     FileRole(Id("engineer"), FALSE, TRUE), FileRole(Id("role-x"), TRUE, TRUE),
     FileRole(Id("role-y"), FALSE, FALSE)}

\* jsonData of importRoles: text without a roles array, and exports of up
\* to MaxFileRoles roles.
RoleFiles ==
    {[array |-> FALSE, roles |-> <<>>]}
      \cup {[array |-> TRUE, roles |-> rs] :
              rs \in UNION {[1..n -> FileRoles] : n \in 0..MaxFileRoles}}

\* roles.find((role) => role.id === id), NoRole for undefined
Find(rs, id) ==
    IF \E i \in 1..Len(rs) : rs[i].id = id
    THEN rs[FindIndex(rs, id)]
    ELSE NoRole

\* DEFAULT_ROLE_BLUEPRINTS.find((role) => role.id === id)
GetRoleBlueprintSync(id) == IF id \in DefaultIds THEN DefaultRole(id) ELSE NoRole

\* getRoleBlueprint(id) over the stored roles rs
GetRoleBlueprint(rs, id) ==
    IF Find(rs, id) # NoRole THEN Find(rs, id) ELSE GetRoleBlueprintSync(id)

\* createCustomRole(...) with generated id k: what it returns and stores.
CreateCustomRoleOn(rs, k) ==
    [ret |-> CustomRole(GeneratedId(k)),
     roles |-> Append(rs, CustomRole(GeneratedId(k)))]

\* updateRole(id, updates)
UpdateRoleOn(rs, id, updates) ==
    LET index == FindIndex(rs, id) IN
      IF index = 0 THEN [ret |-> NoRole, roles |-> rs]
      ELSE IF rs[index].isDefault THEN [ret |-> NoRole, roles |-> rs]
      ELSE [ret |-> Merge(rs[index], updates),
            roles |-> [rs EXCEPT ![index] = Merge(rs[index], updates)]]

\* deleteRole(id)
DeleteRoleOn(rs, id) ==
    IF Find(rs, id) = NoRole \/ Find(rs, id).isDefault
    THEN [ret |-> FALSE, roles |-> rs]
    ELSE [ret |-> TRUE, roles |-> SelectSeq(rs, LAMBDA r : r.id # id)]

\* duplicateRole(id) with generated id k
DuplicateRoleOn(rs, id, k) ==
    IF GetRoleBlueprint(rs, id) = NoRole
    THEN [ret |-> NoRole, roles |-> rs]
    ELSE CreateCustomRoleOn(rs, k)

\* The for loop of importRoles (lines 429-466) over the first n roles of the
\* file: the roles to store, the ids seen, the two counters and the ids
\* generated, the first of them being GeneratedId(k + 1).
RECURSIVE ImportLoop(_, _, _, _, _)
ImportLoop(existingRoles, file, mergeStrategy, k, n) ==
    IF n = 0
    THEN [newRoles |-> existingRoles,
          existingIds |-> {existingRoles[i].id : i \in 1..Len(existingRoles)},
          imported |-> 0, skipped |-> 0, minted |-> k]
    ELSE LET st == ImportLoop(existingRoles, file, mergeStrategy, k, n - 1)
             role == file[n]
         IN  IF role.id \in DefaultIds \/ role.isDefault
             THEN [st EXCEPT !.skipped = @ + 1]
             ELSE IF ~role.ok
             THEN [st EXCEPT !.skipped = @ + 1]
             ELSE LET regen == mergeStrategy = "merge" /\ role.id \in st.existingIds
                      id == IF regen THEN GeneratedId(st.minted + 1) ELSE role.id
                  IN  [newRoles |-> Append(st.newRoles, CustomRole(id)),
                       existingIds |-> st.existingIds \cup {id},
                       imported |-> st.imported + 1,
                       skipped |-> st.skipped,
                       minted |-> IF regen THEN st.minted + 1 ELSE st.minted]

\* importRoles(jsonData, mergeStrategy)
ImportRolesOn(rs, file, mergeStrategy, k) ==
    IF ~file.array
    THEN [imported |-> 0, skipped |-> 0, roles |-> rs, minted |-> k]
    ELSE LET existingRoles == IF mergeStrategy = "replace" THEN <<>> ELSE rs
             st == ImportLoop(existingRoles, file.roles, mergeStrategy, k,
                              Len(file.roles))
         IN  [imported |-> st.imported, skipped |-> st.skipped,
              roles |-> st.newRoles, minted |-> st.minted]

\* The ids a call may name: the named ones and those stored.
CallIds == NamedIds \cup {roles[i].id : i \in 1..Len(roles)}

\* A call that is not an import.
NoInput == [count |-> 0, mergeStrategy |-> "none"]

\* A roleBlueprints call starts and runs to its end.
RoleCall(op, ret, input) ==
    /\ rops < MaxRoleOps
    /\ rops' = rops + 1
    /\ rres' = [op |-> op, ret |-> ret, input |-> input]

CreateCustomRole ==
    LET r == CreateCustomRoleOn(roles, minted + 1) IN
      /\ RoleCall("createCustomRole", r.ret, NoInput)
      /\ roles' = r.roles
      /\ minted' = minted + 1

UpdateRole(id, updates) ==
    LET r == UpdateRoleOn(roles, id, updates) IN
      /\ RoleCall("updateRole", r.ret, NoInput)
      /\ roles' = r.roles
      /\ UNCHANGED minted

DeleteRole(id) ==
    LET r == DeleteRoleOn(roles, id) IN
      /\ RoleCall("deleteRole", r.ret, NoInput)
      /\ roles' = r.roles
      /\ UNCHANGED minted

DuplicateRole(id) ==
    LET r == DuplicateRoleOn(roles, id, minted + 1) IN
      /\ RoleCall("duplicateRole", r.ret, NoInput)
      /\ roles' = r.roles
      /\ minted' = IF r.ret = NoRole THEN minted ELSE minted + 1

ImportRoles(file, mergeStrategy) ==
    LET r == ImportRolesOn(roles, file, mergeStrategy, minted) IN
      /\ RoleCall("importRoles",
                  [imported |-> r.imported, skipped |-> r.skipped],
                  [count |-> Len(file.roles), mergeStrategy |-> mergeStrategy])
      /\ roles' = r.roles
      /\ minted' = r.minted

InitRoles ==
    /\ ClientIdle
    /\ ConcIdle
    /\ UsageIdle
    /\ ParseIdle
    /\ LibIdle
    /\ BarIdle
    /\ TrackIdle
    /\ roles \in {<<>>, <<CustomRole(Id("role-x"))>>}
    /\ rres = NoReturn
    /\ rops = 0
    /\ minted = 0

NextRoles ==
    /\ \/ CreateCustomRole
       \/ \E id \in CallIds, u \in RoleUpdates : UpdateRole(id, u)
       \/ \E id \in CallIds : DeleteRole(id)
       \/ \E id \in CallIds : DuplicateRole(id)
       \/ \E file \in RoleFiles, m \in MergeStrategies : ImportRoles(file, m)
    /\ UNCHANGED <<storedKey, now, clientVars, callVars, calls, ticks,
                   concVars, usageVars, parseVars, libVars, barVars,
                   trackVars>>

SpecRoles == InitRoles /\ [][NextRoles]_vars

\* ------------------------------------------------------------ observations
\* Fetches of the invocation that have settled.
RespTotal ==
    resp["ok"] + resp["empty"] + resp["badbody"] + resp["401"] + resp["429"]
      + resp["500"] + resp["neterr"] + resp["timeout"]

\* Results after which makeRequest goes round again.
Retried == resp["429"] + resp["neterr"] + resp["badbody"]

\* Attempts admitted in the closed 60-second window that ends at time t.
AdmittedIn(t) ==
    Cardinality({j \in DOMAIN admitted :
                   admitted[j] >= t - WINDOW_MS /\ admitted[j] <= t})

\* The closed 60-second window that ends at the latest admission holds at
\* most MAX_REQUESTS_PER_MINUTE admissions.  Admissions are appended in time
\* order, so this holding in every state bounds every 60-second window.
WindowsWithinCeiling ==
    admitted # <<>>
      => AdmittedIn(admitted[Len(admitted)]) <= MAX_REQUESTS_PER_MINUTE

\* The step runs checkRateLimit: an invocation that gets past the credential
\* check, or a retry.
CheckStep ==
    \/ calls' = calls + 1 /\ outcome' # "CredentialMissing"
    \/ pc = "sleep" /\ pc' # "sleep"

\* Each backoff delay is at least twice the one before; the first is 1 s.
DelaysDouble ==
    /\ Len(delays) > 0 => delays[1] = BACKOFF_BASE_MS
    /\ \A i \in 2..Len(delays) : delays[i] >= 2 * delays[i - 1]

\* Tracked calls whose cost fell in calendar month m.
CostsOf(m) == {i \in DOMAIN spent : spent[i] = m}

\* The stored monthly cost sums only calls of the stored month.
MonthlyUnmixed == stats.monthlyCostUSD \subseteq CostsOf(stats.currentMonth)

\* The header lines of a text, and those that open section key.
Headers(ls) == {i \in DOMAIN ls : IsHeader(ls[i].s)}
HeadersOf(ls, key) == {i \in Headers(ls) : SectionName(ls[i].s) = key}

\* The header line that line i of the text stands under (0: none).
HeaderAbove(ls, i) ==
    LET above == {j \in Headers(ls) : j < i} IN
      IF above = {} THEN 0
      ELSE CHOOSE j \in above : \A o \in above : o <= j

\* The section line i stands in ("": none).
SectionAt(ls, i) ==
    IF HeaderAbove(ls, i) = 0 THEN "" ELSE SectionName(ls[HeaderAbove(ls, i)].s)

\* The non-blank, non-header lines among the first n that stand under a
\* header of section key, in text order.
RECURSIVE LinesUnder(_, _, _)
LinesUnder(ls, key, n) ==
    IF n = 0 THEN <<>>
    ELSE LinesUnder(ls, key, n - 1)
           \o (IF /\ ls[n].s # ""
                  /\ ~IsHeader(ls[n].s)
                  /\ SectionAt(ls, n) = key
               THEN <<n>> ELSE <<>>)

\* The lines under the first n constraint-type headers of ConstraintKeys.
RECURSIVE ConstraintLines(_, _)
ConstraintLines(ls, n) ==
    IF n = 0 THEN <<>>
    ELSE ConstraintLines(ls, n - 1)
           \o LinesUnder(ls, ConstraintKeys[n], Len(ls))

\* The fields of the result are built from all lines under their headers.
FieldsFromSections ==
    /\ parsed.role = Join(Texts(text, LinesUnder(text, "ROLE", Len(text))), " ")
    /\ parsed.objective =
         Join(Texts(text, LinesUnder(text, "OBJECTIVE", Len(text))), " ")
    /\ parsed.outputFormat =
         Join(Texts(text, LinesUnder(text, "OUTPUT FORMAT", Len(text))), "\n")
    /\ parsed.constraints =
         Texts(text, ConstraintLines(text, Len(ConstraintKeys)))

\* The place of a constraint-type section in ConstraintKeys.
Rank(key) == CHOOSE n \in DOMAIN ConstraintKeys : ConstraintKeys[n] = key

\* The lines parseEnhancedPrompt scans.
Scanned == TrimString(text)

\* ------------------------------------------------------------------ claims
\* C1: with no credential configured (config null, no API key in storage)
\* chatCompletion fails with CredentialMissing, issues no fetch and leaves
\* the rate counter, the last-request time and the admissions as they were.
C1_MissingCredential ==
    [][(calls' = calls + 1 /\ config = NoConfig /\ storedKey = NoKey)
         => /\ pc' = "done"
            /\ outcome' = "CredentialMissing"
            /\ attempts' = 0
            /\ config' = NoConfig
            /\ requestCount' = requestCount
            /\ lastRequestTime' = lastRequestTime
            /\ admitted' = admitted]_vars

C1_Witness ==
    /\ pc = "done"
    /\ outcome = "CredentialMissing"
    /\ config = NoConfig
    /\ storedKey = NoKey
    /\ attempts = 0

\* C2 (as claimed): once the first attempt is admitted, a remote that answers
\* n <= MAX_RETRIES attempts with 429 and the next with a 200 carrying text
\* makes the invocation succeed after exactly n + 1 attempts, with backoff
\* delays that at least double.  A finished invocation all of whose fetches
\* came back 429 (at most MAX_RETRIES of them) or 200 has seen such a remote.
C2_RetryThenSuccess ==
    (/\ pc = "done"
     /\ attempts >= 1
     /\ resp["429"] + resp["ok"] = RespTotal
     /\ resp["429"] <= MAX_RETRIES)
      => /\ outcome = "ok"
         /\ attempts = resp["429"] + 1
         /\ Len(delays) = resp["429"]
         /\ DelaysDouble

\* C3 (as claimed): once the first attempt is admitted, a remote that answers
\* every attempt with 429 makes the invocation fail with RemoteRateLimited
\* after exactly MAX_RETRIES + 1 attempts.
C3_RetryExhausted ==
    (/\ pc = "done"
     /\ attempts >= 1
     /\ resp["429"] = RespTotal)
      => /\ outcome = "RemoteRateLimited"
         /\ attempts = MAX_RETRIES + 1

\* C4: no closed 60-second window holds more than MAX_REQUESTS_PER_MINUTE
\* admitted attempts, and an attempt checked when that many were admitted in
\* the last 60 seconds fails with LocalRateLimited and leaves the counter,
\* the last-request time and the admissions unchanged.
C4_CeilingNeverExceeded ==
    [][/\ WindowsWithinCeiling
       /\ WindowsWithinCeiling'
       /\ (CheckStep /\ AdmittedIn(now') >= MAX_REQUESTS_PER_MINUTE)
            => /\ pc' = "done"
               /\ outcome' = "LocalRateLimited"
               /\ requestCount' = requestCount
               /\ lastRequestTime' = lastRequestTime
               /\ admitted' = admitted]_vars

C4_Witness ==
    /\ pc = "done"
    /\ outcome = "LocalRateLimited"
    /\ AdmittedIn(now) = MAX_REQUESTS_PER_MINUTE
    /\ requestCount = MAX_REQUESTS_PER_MINUTE

\* C5 (as claimed): the ceiling is a sliding window; an attempt is rejected
\* with LocalRateLimited only if MAX_REQUESTS_PER_MINUTE attempts were
\* admitted in the 60 seconds before it.
C5_SlidingWindow ==
    (pc = "done" /\ outcome = "LocalRateLimited")
      => AdmittedIn(rejectedAt) >= MAX_REQUESTS_PER_MINUTE

\* C6 (as claimed): an invocation that fails with LocalRateLimited has issued
\* no fetch.
C6_LocalCheckBeforeNetwork ==
    outcome = "LocalRateLimited" => attempts = 0

\* C7: a 401 on any attempt ends the invocation at once with
\* CredentialInvalid: it is the last fetch, and no backoff delay follows it.
C7_InvalidCredentialNotRetried ==
    resp["401"] > 0
      => /\ pc = "done"
         /\ outcome = "CredentialInvalid"
         /\ lastResp = "401"
         /\ resp["401"] = 1
         /\ attempts = RespTotal
         /\ Len(delays) = Retried
         /\ retryCount = Retried

C7_Witness ==
    /\ outcome = "CredentialInvalid"
    /\ retryCount = MAX_RETRIES
    /\ attempts = MAX_RETRIES + 1

\* C8 (as claimed): a timed-out attempt is retried with backoff, and
\* NetworkTimeout reaches the caller only after MAX_RETRIES + 1 attempts
\* have timed out.
C8_TimeoutRetried ==
    outcome = "NetworkTimeout"
      => /\ attempts = MAX_RETRIES + 1
         /\ resp["timeout"] = MAX_RETRIES + 1

\* C9 (as claimed): when every attempt fails at network level (fetch
\* rejects, no timeout) the invocation retries after 1 s, 2 s and 4 s and
\* fails with NetworkError after exactly MAX_RETRIES + 1 attempts; and an
\* attempt that succeeds makes the invocation succeed.
C9_NetworkErrorRetried ==
    /\ (pc = "done" /\ attempts >= 1 /\ resp["neterr"] = RespTotal)
         => /\ outcome = "NetworkError"
            /\ attempts = MAX_RETRIES + 1
            /\ delays = <<BACKOFF_BASE_MS, 2 * BACKOFF_BASE_MS,
                          4 * BACKOFF_BASE_MS>>
    /\ (pc = "done" /\ lastResp = "ok") => outcome = "ok"

\* C10: a non-2xx status other than 401 and 429 ends the invocation with
\* RemoteServiceError, a 2xx without generated text ends it with
\* EmptyResponse, and in both cases that fetch is the invocation's last.
C10_PermanentOutcomesNotRetried ==
    /\ resp["500"] > 0
         => /\ pc = "done"
            /\ outcome = "RemoteServiceError"
            /\ lastResp = "500"
            /\ resp["500"] = 1
            /\ attempts = RespTotal
            /\ Len(delays) = Retried
    /\ resp["empty"] > 0
         => /\ pc = "done"
            /\ outcome = "EmptyResponse"
            /\ lastResp = "empty"
            /\ resp["empty"] = 1
            /\ attempts = RespTotal
            /\ Len(delays) = Retried

C10_Witness ==
    /\ outcome \in {"RemoteServiceError", "EmptyResponse"}
    /\ retryCount >= 1
    /\ attempts = retryCount + 1

\* C11: an invocation issues at most 1 + MAX_RETRIES fetches whatever the
\* remote answers, never has two outstanding, and starts each further fetch
\* only from the backoff sleep that followed the previous one's result, once
\* that delay has passed; 429s and network failures count on one counter.
C11_AttemptsSequentialAndBounded ==
    [][/\ attempts' <= MAX_RETRIES + 1
       /\ attempts' <= retryCount' + 1
       /\ attempts' - RespTotal' \in {0, 1}
       /\ (pc' = "fetch") <=> (attempts' - RespTotal' = 1)
       /\ (attempts' = attempts + 1 /\ attempts >= 1)
            => /\ pc = "sleep"
               /\ RespTotal = attempts
               /\ Retried = attempts
               /\ Len(delays) = attempts
               /\ now' >= now + delays[Len(delays)]]_vars

C11_Witness ==
    /\ pc = "done"
    /\ attempts = MAX_RETRIES + 1
    /\ resp["429"] >= 1
    /\ resp["neterr"] >= 1
    /\ resp["ok"] = 1

\* C12: a storage failure inside trackUsage after a 200 with text leaves the
\* invocation resolved with the text: that fetch is its last, and no backoff
\* or retry follows it.
C12_UsageFailureSwallowed ==
    usageFailed
      => /\ pc = "done"
         /\ outcome = "ok"
         /\ lastResp = "ok"
         /\ resp["ok"] = 1
         /\ attempts = RespTotal
         /\ Len(delays) = Retried

C12_Witness ==
    /\ usageFailed
    /\ outcome = "ok"
    /\ attempts >= 2

\* C13: the stored monthlyCostUSD sums only cost of the stored currentMonth,
\* whatever the interleaving and whichever storage calls fail.  A trackUsage
\* whose write lands on the record it read stores the month it ran in, with
\* the cost of its call added to the stored monthly cost when the record was
\* of that month and standing alone when it was of another; the popup's
\* write on the record it read stores the new month with a zero monthly cost.
C13_MonthlyCostNeverMixesMonths ==
    [][/\ MonthlyUnmixed
       /\ MonthlyUnmixed'
       /\ (tpc = "set" /\ stats' = tloc.upd /\ tloc.seen = stats)
            => /\ stats'.currentMonth = spent[ucalls]
               /\ stats'.monthlyCostUSD =
                    IF stats.currentMonth = spent[ucalls]
                    THEN stats.monthlyCostUSD \cup {ucalls}
                    ELSE {ucalls}
       /\ (ppc = "set" /\ stats' = ploc.upd /\ ploc.seen = stats)
            => /\ stats'.currentMonth # stats.currentMonth
               /\ stats'.monthlyCostUSD = {}]_vars

C13_Witness ==
    /\ \E i \in DOMAIN spent : spent[i] < stats.currentMonth
    /\ stats.monthlyCostUSD = CostsOf(stats.currentMonth)
    /\ Cardinality(stats.monthlyCostUSD) >= 2
    /\ stats.totalCostUSD = DOMAIN spent

\* C15 (as claimed): no fetch is ever outstanding while the configuration
\* holds no credential or an empty one.
C15_NoRequestWithoutCredential ==
    pc = "fetch" => (config # NoConfig /\ config.apiKey \in ApiKeys)

\* C14: under any interleaving of concurrent invocations the check and the
\* increment of checkRateLimit act as one step: every attempt that passes
\* takes exactly one slot of the counter, so with k slots left in the window
\* at most k attempts pass.
C14_CheckAndIncrementAtomic ==
    /\ requestCount = Len(admitted)
    /\ Len(admitted) <= MAX_REQUESTS_PER_MINUTE

C14_Witness ==
    \E c1, c2 \in Callers :
        /\ cpc[c1] = "fetch" /\ crc[c1] = 0
        /\ cout[c2] = "LocalRateLimited" /\ crc[c2] = 0
        /\ Len(admitted) = MAX_REQUESTS_PER_MINUTE

\* C16 (as claimed): for every text, role and objective are the trimmed
\* non-blank lines under the ROLE and OBJECTIVE headers joined by spaces,
\* outputFormat those under OUTPUT FORMAT joined by newlines, constraints
\* those under the constraint-type headers in the fixed order of the types;
\* header lines and lines before the first header are in none of them.
C16_FieldsFromSections ==
    parsed # NoResult => FieldsFromSections

\* C16, on the texts in which no header name occurs twice: there it holds.
C16_UnlessHeaderRepeats ==
    (/\ parsed # NoResult
     /\ \A k \in HeaderNames : Cardinality(HeadersOf(text, k)) <= 1)
      => FieldsFromSections

\* C17 (as claimed): the constraints list keeps raw-text order, also between
\* lines under different constraint-type headers.
C17_RawOrderPreserved ==
    parsed # NoResult
      => \A p, q \in DOMAIN parsed.constraintsAt :
           p < q => parsed.constraintsAt[p] < parsed.constraintsAt[q]

\* C17 (amended): the constraints list keeps raw-text order between lines of
\* one section; lines of different sections stand in the fixed order of
\* their section names, wherever the headers stand in the text.
C17_OrderWithinSections ==
    parsed # NoResult
      => \A p, q \in DOMAIN parsed.constraintsAt :
           p < q =>
             LET a == parsed.constraintsAt[p]
                 b == parsed.constraintsAt[q]
             IN  \/ Rank(SectionAt(Scanned, a)) < Rank(SectionAt(Scanned, b))
                 \/ /\ SectionAt(Scanned, a) = SectionAt(Scanned, b)
                    /\ a < b

C17_Witness ==
    /\ parsed # NoResult
    /\ Len(parsed.constraintsAt) >= 2
    /\ parsed.constraintsAt[1] > parsed.constraintsAt[2]
    /\ SectionAt(Scanned, parsed.constraintsAt[1]) = "CONSTRAINTS"
    /\ SectionAt(Scanned, parsed.constraintsAt[2]) = "CONTEXT"

\* C18 (as claimed): when the last header of the text is its one
\* SUGGESTED_ROLE header (any case, colon or not), fullText is the trimmed
\* text above that header; when the text has no SUGGESTED_ROLE header,
\* fullText is the trimmed text.
C18_SuggestionStripped ==
    parsed # NoResult
      => /\ HeadersOf(text, "SUGGESTED_ROLE") = {}
              => parsed.fullText = TrimString(text)
         /\ \A h \in Headers(text) :
              (/\ HeadersOf(text, "SUGGESTED_ROLE") = {h}
               /\ \A o \in Headers(text) : o <= h)
                => parsed.fullText = TrimString(SubSeq(text, 1, h - 1))

\* C19: parseEnhancedPrompt returns a result for every text; a section the
\* text does not have gives the empty string (role, objective, outputFormat)
\* or the empty list (constraints), never undefined; a SUGGESTED_ROLE body
\* that does not match the pattern gives no suggestion; the empty string
\* gives empty fields, an empty list and no suggestion.
C19_ParserTotal ==
    parsed # NoResult
      => /\ parsed.role # Undefined
         /\ parsed.objective # Undefined
         /\ parsed.outputFormat # Undefined
         /\ HeadersOf(text, "ROLE") = {} => parsed.role = <<>>
         /\ HeadersOf(text, "OBJECTIVE") = {} => parsed.objective = <<>>
         /\ HeadersOf(text, "OUTPUT FORMAT") = {} => parsed.outputFormat = <<>>
         /\ (\A n \in DOMAIN ConstraintKeys :
               HeadersOf(text, ConstraintKeys[n]) = {})
              => parsed.constraints = <<>>
         /\ (\A i \in DOMAIN text : text[i].s \notin {SugOk, SugHigh})
              => ~parsed.suggestedRole.present
         /\ text = <<Line("")>>
              => /\ parsed.role = <<>>
                 /\ parsed.objective = <<>>
                 /\ parsed.outputFormat = <<>>
                 /\ parsed.constraints = <<>>
                 /\ parsed.fullText = <<>>
                 /\ ~parsed.suggestedRole.present

C19_Witness ==
    /\ parsed # NoResult
    /\ HeadersOf(text, "ROLE") = {}
    /\ parsed.role = <<>>
    /\ parsed.objective # <<>>
    /\ \E i \in DOMAIN text :
         /\ text[i].s = SugBad
         /\ SectionAt(text, i) = "SUGGESTED_ROLE"
    /\ ~parsed.suggestedRole.present

\* C20 (as claimed): a suggestion that is returned has a confidence between
\* 0 and 1 (0 and 100 hundredths).
C20_ConfidenceInUnitInterval ==
    (parsed # NoResult /\ parsed.suggestedRole.present)
      => /\ parsed.suggestedRole.confidence >= 0
         /\ parsed.suggestedRole.confidence <= 100

\* C21: validate() over a finished probe returns false exactly when the
\* probe failed with CredentialInvalid, which is exactly when its last fetch
\* came back 401; for every other outcome it returns true, and it always
\* returns a boolean.
C21_ValidateFalseOnlyOn401 ==
    pc = "done"
      => /\ Validate(outcome) \in BOOLEAN
         /\ ~Validate(outcome) <=> outcome = "CredentialInvalid"
         /\ ~Validate(outcome) <=> lastResp = "401"
         /\ outcome \in {"ok", "CredentialMissing", "LocalRateLimited",
                         "RemoteRateLimited", "NetworkTimeout", "NetworkError",
                         "RemoteServiceError", "EmptyResponse"}
              => Validate(outcome)

C21_Witness ==
    /\ pc = "done"
    /\ outcome = "CredentialInvalid"
    /\ ~Validate(outcome)
    /\ attempts >= 2

\* C22 (as claimed): the hint of a LocalRateLimited failure is between 1 and
\* 60 seconds, and with no attempt admitted in between the local check
\* admits the call once that many seconds have passed since the rejection.
C22_WaitHintSufficient ==
    (pc = "done" /\ outcome = "LocalRateLimited")
      => /\ waitHint >= 1
         /\ waitHint <= 60
         /\ CheckRateLimit(requestCount, lastRequestTime,
                           rejectedAt + waitHint * 1000).admit

\* C23: the prompt library never holds more than 500 prompts, whatever
\* savePrompt, updatePrompt, deletePrompt and importData calls have run from
\* a library of at most 500, and a savePrompt that found 500 stored failed
\* with STORAGE_QUOTA_EXCEEDED and left the list as long as it was.
C23_LibraryWithinLimit ==
    /\ Len(prompts) <= MAX_PROMPTS
    /\ (sres.op = "savePrompt" /\ sres.was = MAX_PROMPTS)
         => /\ sres.err = "STORAGE_QUOTA_EXCEEDED"
            /\ Len(prompts) = sres.was

\* What does hold of the library: only importData takes it past the limit.
SavePromptKeepsLimit ==
    [][(sres'.op # "importData" /\ Len(prompts) <= MAX_PROMPTS)
         => Len(prompts') <= MAX_PROMPTS]_vars

\* C25: once getApiKey() has returned a stored key, the stored value is in
\* the AES-GCM format and holds the key returned: a legacy XOR-encrypted key
\* is re-encrypted by the first read.
C25_LegacyKeyMigratedOnRead ==
    (sres.op = "getApiKey" /\ sres.value # <<>>)
      => /\ keyBlob.fmt = "aes"
         /\ Decrypt(keyBlob) = sres.value

\* What does hold of the read: it returns the key that was encrypted.
LegacyKeyReadable ==
    (sres.op = "getApiKey" /\ keyBlob # NoBlob)
      => /\ sres.value \in PlainKeys
         /\ keyBlob \in {LegacyBlob(sres.value)}
                          \cup {Encrypt(sres.value, iv) : iv \in IVs}

\* C24: at most one 'promptlayer-container' element exists in the page,
\* whatever injectToolbar() and removeToolbar() calls have run, overlapping
\* injectToolbar() invocations included.
C24_ToolbarNeverDuplicated == containers <= 1

\* What does hold of the toolbar: an invocation that finds the flag set
\* adds no container.
FlagStopsInjection ==
    [][\A i \in Injectors :
         (toolbarInjected /\ ipc[i] # "loading" /\ ipc[i] # "initializing")
           => (ipc'[i] # "loading" /\ ipc'[i] # "initializing")]_vars

\* C26: once all the concurrent enhance() invocations have finished, the
\* stored record counts the tokens of every one of them on top of what was
\* recorded before, and enhancementsPerformed has grown by their number.
C26_NoLostUsageUpdates ==
    (\A c \in Callers : upc[c] = "done")
      => LET before == IF 0 \in stats.totalTokensUsed THEN 1 ELSE 0 IN
           /\ stats.totalTokensUsed \ {0} = Callers
           /\ stats.enhancementsPerformed = before + NumCallers

\* What does hold of the record: one invocation running alone is counted.
AloneIsCounted ==
    \A c \in Callers :
      (upc[c] = "done" /\ \A d \in Callers \ {c} : upc[d] = "idle")
        => /\ stats.totalTokensUsed \ {0} = {c}
           /\ stats.enhancementsPerformed \in {1, 2}

\* C27: the client reads its persisted configuration successfully at most
\* once: once a configuration is cached, no run of initialize() completes
\* and installs a configuration again; and an invocation that ended with
\* CredentialMissing while the client had no configuration left it without.
C27_ConfigurationReadOnce ==
    [][\A c \in Callers :
         /\ (config # NoConfig /\ cpc[c] = "init" /\ cpc'[c] # "init")
              => cout'[c] = "CredentialMissing"
         /\ (config = NoConfig /\ cpc[c] = "init"
               /\ cout'[c] = "CredentialMissing")
              => config' = NoConfig]_vars

\* What does hold of the client: with one invocation at a time, the cached
\* configuration is not touched by what is written to storage, and a call
\* that finds a configuration cached keeps it whatever is stored.
CachedConfigKept ==
    [][/\ (config # NoConfig /\ storedKey' # storedKey) => config' = config
       /\ (config # NoConfig /\ calls' = calls + 1) => config' = config
       /\ (config = NoConfig /\ calls' = calls + 1
             /\ outcome' = "CredentialMissing") => config' = NoConfig]_vars

\* C28: no section content is lost during the scan: at its end, the lines
\* accumulated for each section are all the non-blank, non-header lines
\* that stand under a header of that section, in text order, also when the
\* header occurs more than once.
C28_NoSectionContentLost ==
    parsed # NoResult
      => \A k \in HeaderNames :
           Scan(Scanned, Len(Scanned)).sec[k].at
             = LinesUnder(Scanned, k, Len(Scanned))

\* What does hold of the scan: a section keeps the lines under the last
\* occurrence of its header.
LastOccurrenceKept ==
    parsed # NoResult
      => \A k \in HeaderNames :
           LET last == IF HeadersOf(Scanned, k) = {} THEN 0
                       ELSE CHOOSE j \in HeadersOf(Scanned, k) :
                              \A o \in HeadersOf(Scanned, k) : o <= j
           IN  Scan(Scanned, Len(Scanned)).sec[k].at
                 = SelectSeq(LinesUnder(Scanned, k, Len(Scanned)),
                             LAMBDA i : last # 0 /\ i > last)

\* The ids of the stored roles are pairwise distinct.
DistinctIds(rs) == \A i, j \in 1..Len(rs) : rs[i].id = rs[j].id => i = j

\* C29: default roles cannot be edited, deleted or replaced: whatever calls
\* have run, for every default id d getRoleBlueprint(d) returns the built-in
\* blueprint, updateRole(d, ...) returns null and deleteRole(d) returns
\* false, each leaving the stored roles as they are.
C29_DefaultRolesProtected ==
    \A d \in DefaultIds :
      /\ GetRoleBlueprint(roles, d) = DefaultRole(d)
      /\ \A u \in RoleUpdates :
           UpdateRoleOn(roles, d, u) = [ret |-> NoRole, roles |-> roles]
      /\ DeleteRoleOn(roles, d) = [ret |-> FALSE, roles |-> roles]

\* What does hold of the defaults: no call but updateRole stores a role
\* under a default id.
OnlyUpdateTakesDefaultId ==
    [][(rres'.op # "updateRole"
          /\ \A i \in 1..Len(roles) : roles[i].id \notin DefaultIds)
         => \A i \in 1..Len(roles') : roles'[i].id \notin DefaultIds]_vars

\* C30: an importRoles call that finds stored roles with pairwise distinct
\* ids leaves stored roles with pairwise distinct ids, stores every
\* imported role with isDefault false and isEditable true, and imported +
\* skipped is the number of roles in the input file.
C30_ImportKeepsIdsUnique ==
    [][(rops' = rops + 1 /\ rres'.op = "importRoles" /\ DistinctIds(roles))
         => /\ DistinctIds(roles')
            /\ \A i \in 1..Len(roles') :
                 i > Len(roles') - rres'.ret.imported
                   => ~roles'[i].isDefault /\ roles'[i].isEditable
            /\ rres'.ret.imported + rres'.ret.skipped = rres'.input.count]_vars

\* What does hold of importRoles: merging keeps the ids distinct.
MergeKeepsIdsUnique ==
    [][(rops' = rops + 1 /\ rres'.op = "importRoles" /\ DistinctIds(roles)
          /\ rres'.input.mergeStrategy = "merge")
         => DistinctIds(roles')]_vars

====
